---------------------------- MODULE Spec2Model ----------------------------
(***************************************************************************)
(* GiggleMap backend: the place and user REST handlers, their services and *)
(* the relational/geospatial store they query.                             *)
(*                                                                         *)
(* Units.  Latitudes and longitudes are integers in microdegrees           *)
(* (30.033333 degrees is 30033333).  Distances are integers in decimeters; *)
(* a radius is given in meters, as in the query string.                    *)
(*                                                                         *)
(* JavaScript values are records [k, v]: k is "undef" (undefined, an       *)
(* omitted parameter), "num" (a number, or a string that parses as one),   *)
(* "text" (a string that is not a number) or "nan" (NaN); v is the number. *)
(***************************************************************************)
EXTENDS Integers, Sequences, FiniteSets, TLC

VARIABLES
    places,       \* table "Place": id -> [name, description, location]
    nextPlaceId,  \* the SERIAL sequence of "Place".id
    users,        \* table "User": id -> row
    nextUserId,   \* the autoincrement sequence of "User".id
    tokens,       \* payloads (userId) of the JWTs issued so far
    assets,       \* URLs of the avatar images held by the image host
    deleted,      \* history: ids whose DELETE /users/:id was answered 200
    inflight,     \* requests past the middleware, each at its next query
    ledger,       \* history: per user, the sum of the increments that the
                  \* stats requests in flight have applied to likeCount, up
                  \* to the first of them that was clamped
    req,          \* the request being answered
    resp          \* its response

vars ==
    <<places, nextPlaceId, users, nextUserId, tokens, assets, deleted,
      inflight, ledger, req, resp>>

placeVars == <<places, nextPlaceId>>
userVars ==
    <<users, nextUserId, tokens, assets, deleted, inflight, ledger>>

---------------------------------------------------------------------------
(* Bounds of the model *)

\* rows ever inserted into "Place"
MaxPlaces == 4
\* rows ever inserted into "User"
MaxUsers == 2
\* result sets of up to MaxPermuted rows are handed back in every order
MaxPermuted == 3
\* the number of accounts of a populated store
BulkUsers == 101
\* the number of asset names the image host hands out
MaxAssets == 2
\* the engagement counters of all users together stay within MaxStat
MaxStat == 5
\* the number of requests in flight at a time
MaxInflight == 2
\* the largest sum of the counters of all users, with requests in flight
MaxRaceStat == 10

---------------------------------------------------------------------------
(* JavaScript values *)

Undef == [k |-> "undef", v |-> 0]
NaN == [k |-> "nan", v |-> 0]
Text == [k |-> "text", v |-> 0]
Num(n) == [k |-> "num", v |-> n]
\* a string s that is given as such (a name), not as a number
Str(s) == [k |-> "str", v |-> 0, s |-> s]

\* undefined, NaN and (not modelled) "", 0, null are falsy; a query-string
\* parameter that is present is a non-empty string, hence truthy
Falsy(x) == x.k \in {"undef", "nan"}

\* parseFloat / parseInt of a query-string parameter or body field
parseFloat(x) == IF x.k = "num" THEN x ELSE NaN

isNaN(x) == x.k # "num"

\* Math.round of a distance in decimeters, in meters (halves round up)
MathRound(dm) == (dm + 5) \div 10

Min(a, b) == IF a <= b THEN a ELSE b
Abs(a) == IF a < 0 THEN 0 - a ELSE a

---------------------------------------------------------------------------
(* The geography type of the store *)

\* coordinates IS NULL
NullPoint == [isNull |-> TRUE, lat |-> 0, lng |-> 0]
Geo(lat, lng) == [isNull |-> FALSE, lat |-> lat, lng |-> lng]

\* the geography range [-90, 90] x [-180, 180]
InRange(lat, lng) ==
    /\ -90000000 <= lat /\ lat <= 90000000
    /\ -180000000 <= lng /\ lng <= 180000000

\* what the store makes of an out-of-range latitude when it coerces
\* (folded over the pole) instead of raising
CoerceLat(lat) ==
    IF lat > 90000000 THEN 180000000 - lat
    ELSE IF lat < -90000000 THEN -180000000 - lat
    ELSE lat

CoerceLng(lng) ==
    IF lng > 180000000 THEN lng - 360000000
    ELSE IF lng < -180000000 THEN lng + 360000000
    ELSE lng

\* ST_Distance(a, b) on geographies, in decimeters: a metric on the sample
\* points (one microdegree is about 1.11 dm)
ST_Distance(a, b) ==
    LET d == Abs(a.lat - b.lat) + Abs(a.lng - b.lng)
    IN  d + (d \div 9)

\* mutant: the bound of the radius taken as exclusive
ST_DWithinExclusive(a, b, r) == ST_Distance(a, b) < r * 10

\* ST_DWithin(a, b, r): r in meters
ST_DWithin(a, b, r) == ST_Distance(a, b) <= r * 10

\* ST_AsText(location): WKT puts the longitude first
ST_AsText(g) ==
    IF g.isNull THEN [wkt |-> "NULL", x |-> 0, y |-> 0]
    ELSE [wkt |-> "POINT", x |-> g.lng, y |-> g.lat]

---------------------------------------------------------------------------
(* Sequences and row order *)

Range(s) == {s[i] : i \in 1..Len(s)}

SetMin(S) == CHOOSE x \in S : \A y \in S : x <= y

SetMax(S) == CHOOSE x \in S : \A y \in S : y <= x

\* a number that splits the numbers K, which are not all equal, into two
\* non-empty halves: those up to it and those above it
Middle(K) == (SetMin(K) + SetMax(K)) \div 2

RECURSIVE Ascending(_)
\* the ids S in the order of the primary key
Ascending(S) ==
    IF S = {} THEN <<>>
    ELSE IF SetMin(S) = SetMax(S) THEN <<SetMin(S)>>
    ELSE LET m == Middle(S)
         IN  Ascending({x \in S : x <= m}) \o Ascending({x \in S : x > m})

Reverse(s) == [i \in 1..Len(s) |-> s[Len(s) + 1 - i]]

\* every order in which the store may hand back the rows with ids S when the
\* query does not say (heap order, index order, ...); of a large result the
\* model keeps the two orders of a primary-key index scan
ScanOrders(S) ==
    IF Cardinality(S) <= MaxPermuted
      THEN {s \in [1..Cardinality(S) -> S] : Range(s) = S}
      ELSE {Ascending(S), Reverse(Ascending(S))}

RECURSIVE ConcatByKey(_, _, _)
\* the rows of `ord` with key in K, smallest key first, rows of one key in
\* the order `ord` has them
ConcatByKey(ord, key, K) ==
    IF K = {} THEN <<>>
    ELSE IF SetMin(K) = SetMax(K)
      THEN SelectSeq(ord, LAMBDA id : key[id] = SetMin(K))
    ELSE LET m == Middle(K)
         IN  ConcatByKey(ord, key, {k \in K : k <= m})
                 \o ConcatByKey(ord, key, {k \in K : k > m})

\* mutant: the ORDER BY clause left out
OrderByMissing(ord, key) == ord

\* ORDER BY key ASC over rows scanned in the order `ord`
OrderBy(ord, key) == ConcatByKey(ord, key, {key[id] : id \in Range(ord)})

\* LIMIT n
Limit(s, n) == SubSeq(s, 1, Min(n, Len(s)))

---------------------------------------------------------------------------
(* The store's treatment of the values a query hands it *)

Raise == [ok |-> FALSE, geo |-> NullPoint]
Ok(g) == [ok |-> TRUE, geo |-> g]

\* ST_GeographyFromText('SRID=4326;POINT(<lng> <lat>)'): the outcomes the
\* store can produce.  The text is the interpolation of the two values: it
\* is well-formed only when both are numbers.  An out-of-range pair is
\* raised as an error or coerced into range with a notice, depending on the
\* store's version.
ST_GeographyFromText(lng, lat) ==
    IF lng.k # "num" \/ lat.k # "num" THEN {Raise}
    ELSE IF InRange(lat.v, lng.v) THEN {Ok(Geo(lat.v, lng.v))}
    ELSE {Raise, Ok(Geo(CoerceLat(lat.v), CoerceLng(lng.v)))}

\* ST_MakePoint(<lng>, <lat>)::geography of two query parameters.  NaN is no
\* coordinate: the store raises, or takes the parameter as NULL (and a
\* predicate on NULL selects no row).
ST_MakePoint(lng, lat) ==
    IF lng.k # "num" \/ lat.k # "num" THEN {Raise, Ok(NullPoint)}
    ELSE ST_GeographyFromText(lng, lat)

---------------------------------------------------------------------------
(* Places: src/services/place.service.js *)

PlaceRow(id) ==
    [id |-> id, name |-> places[id].name,
     description |-> places[id].description,
     location |-> ST_AsText(places[id].location)]

\* INSERT INTO "Place" (name, description, location): name is NOT NULL.
\* The set of possible [ok, places, nextPlaceId] outcomes.
createPlaceService(body) ==
    {IF g.ok /\ body.name.k = "str"
       THEN [ok |-> TRUE,
             places |-> [i \in DOMAIN places \cup {nextPlaceId} |->
                           IF i = nextPlaceId
                             THEN [name |-> body.name.s,
                                   description |->
                                       IF body.description.k = "str"
                                         THEN body.description.s ELSE "",
                                   location |-> g.geo]
                             ELSE places[i]],
             nextPlaceId |-> nextPlaceId + 1]
       ELSE [ok |-> FALSE, places |-> places, nextPlaceId |-> nextPlaceId]
     : g \in ST_GeographyFromText(body.longitude, body.latitude)}

\* the ids of the places WHERE ST_DWithin(location, center, radius)
PlacesWithin(center, radius) ==
    {id \in DOMAIN places : ST_DWithin(places[id].location, center, radius)}

\* SELECT ... FROM "Place" WHERE ST_DWithin(...): no ORDER BY.
\* The set of possible [ok, rows] outcomes.
findNearbyPlacesService(lat, lng, radius) ==
    UNION {IF ~c.ok THEN {[ok |-> FALSE, rows |-> <<>>]}
           ELSE IF c.geo.isNull \/ radius.k # "num"
             THEN {[ok |-> FALSE, rows |-> <<>>], [ok |-> TRUE, rows |-> <<>>]}
           ELSE {[ok |-> TRUE, rows |-> [i \in DOMAIN ord |-> PlaceRow(ord[i])]]
                 : ord \in ScanOrders(PlacesWithin(c.geo, radius.v))}
          : c \in ST_MakePoint(lng, lat)}

\* mutant: parseInt in place of parseFloat for the point of departure,
\* which cuts its coordinates to whole degrees
getDistanceServiceWholeDegrees(fromLat, fromLng, toLat, toLng) ==
    LET cut(x) == IF x.k = "num"
                    THEN Num((x.v \div 1000000) * 1000000) ELSE x
    IN
    UNION {IF ~a.ok \/ ~b.ok THEN {[ok |-> FALSE, distance |-> Undef]}
           ELSE IF a.geo.isNull \/ b.geo.isNull
             THEN {[ok |-> TRUE, distance |-> Undef]}
           ELSE {[ok |-> TRUE, distance |-> Num(ST_Distance(a.geo, b.geo))]}
          : a \in ST_MakePoint(cut(parseFloat(fromLng)),
                               cut(parseFloat(fromLat))),
            b \in ST_MakePoint(parseFloat(toLng), parseFloat(toLat))}

\* SELECT ST_Distance(from, to) AS distance.
\* The set of possible [ok, distance] outcomes; distance NULL is [k "undef"].
getDistanceService(fromLat, fromLng, toLat, toLng) ==
    UNION {IF ~a.ok \/ ~b.ok THEN {[ok |-> FALSE, distance |-> Undef]}
           ELSE IF a.geo.isNull \/ b.geo.isNull
             THEN {[ok |-> TRUE, distance |-> Undef]}
           ELSE {[ok |-> TRUE, distance |-> Num(ST_Distance(a.geo, b.geo))]}
          : a \in ST_MakePoint(parseFloat(fromLng), parseFloat(fromLat)),
            b \in ST_MakePoint(parseFloat(toLng), parseFloat(toLat))}

\* the three rows of seedTestPlaces, inserted in this order
testPlaces ==
    <<[name |-> "City Square", description |-> "A center point",
       lat |-> 30033333, lng |-> 31233334],
      [name |-> "Library Park", description |-> "Quiet place with trees",
       lat |-> 30040000, lng |-> 31220000],
      [name |-> "Food Plaza", description |-> "Famous for street food",
       lat |-> 30050000, lng |-> 31245000]>>

\* mutant: the table is emptied before the test places are inserted
seedTestPlacesReset ==
    [i \in nextPlaceId .. nextPlaceId + 2 |->
        LET p == testPlaces[i - nextPlaceId + 1]
        IN  [name |-> p.name, description |-> p.description,
             location |-> Geo(p.lat, p.lng)]]

seedTestPlaces ==
    [i \in DOMAIN places \cup (nextPlaceId .. nextPlaceId + 2) |->
        IF i \in DOMAIN places THEN places[i]
        ELSE LET p == testPlaces[i - nextPlaceId + 1]
             IN  [name |-> p.name, description |-> p.description,
                  location |-> Geo(p.lat, p.lng)]]

---------------------------------------------------------------------------
(* Requests the model draws *)

\* POST /places bodies: a place north of the seeded ones, one with the
\* latitude 91, and bodies lacking a coordinate or the name
PlaceBodies ==
    {[name |-> n, description |-> Undef, latitude |-> la, longitude |-> lo] :
        n \in {Str("Cafe"), Undef},
        la \in {Num(30100000), Num(91000000), Undef},
        lo \in {Num(31230000), Undef}}

\* query-string values: a latitude, a longitude, a radius in meters and a
\* limit, each omitted, not a number, or a number
QueryLats == {Num(30040000), Num(30100000)}
QueryLngs == {Num(31230000)}
QueryRadii == {Undef, Text, Num(-1), Num(0), Num(5000), Num(10000)}
QueryLimits == {Undef, Text, Num(-1), Num(0), Num(1), Num(150)}

\* GET /places/nearby/search queries: every radius around Library Park and
\* around a center 7 km north of the seeded places, and queries whose lat or
\* lng is omitted or not a number
PlaceQueries ==
    {[lat |-> Num(c[1]), lng |-> Num(c[2]), radius |-> r] :
        c \in {<<30040000, 31220000>>, <<30100000, 31230000>>},
        r \in QueryRadii}
    \cup {[lat |-> la, lng |-> Num(31230000), radius |-> Undef] :
            la \in {Undef, Text}}
    \cup {[lat |-> Num(30040000), lng |-> lo, radius |-> Undef] :
            lo \in {Undef, Text}}

\* GET /places/route/distance queries, between two seeded places
RouteQueries ==
    {[fromLat |-> a, fromLng |-> Num(31233334), toLat |-> b,
      toLng |-> Num(31245000)] :
        a \in {Num(30033333), Num(30050000)},
        b \in {Num(30033333), Num(30050000), Undef, Text}}
    \cup {[fromLat |-> Num(30033333), fromLng |-> Undef,
           toLat |-> Num(30050000), toLng |-> Num(31245000)]}

\* GET /users/nearby queries: every radius with and without a limit, every
\* limit, and queries whose lat or lng is omitted or not a number
UserQueries ==
    {[lat |-> la, lng |-> lo, radius |-> r, limit |-> li] :
        la \in QueryLats, lo \in QueryLngs, r \in QueryRadii,
        li \in {Undef, Num(1)}}
    \cup {[lat |-> Num(30040000), lng |-> Num(31230000),
           radius |-> Num(10000), limit |-> li] : li \in QueryLimits}
    \cup {[lat |-> la, lng |-> Num(31230000), radius |-> Undef,
           limit |-> Undef] : la \in {Undef, Text}}
    \cup {[lat |-> Num(30040000), lng |-> lo, radius |-> Undef,
           limit |-> Undef] : lo \in {Undef, Text}}

\* no stats request in flight has applied an increment
NoLedger == [id \in 1 .. MaxUsers |-> [sum |-> 0, clamped |-> FALSE]]

NoRequest == [op |-> "none"]
NoResponse == [status |-> 0, error |-> FALSE]

\* no request is being handled
Idle == req = NoRequest

\* res.status(500).json({ error: ... }) and the other error answers
Error(status) == [status |-> status, error |-> TRUE]

---------------------------------------------------------------------------
(* Places: the controllers (src/controllers/place.controller.js) *)

\* POST /places
createPlace ==
    /\ Idle
    /\ nextPlaceId <= MaxPlaces
    /\ \E body \in PlaceBodies : \E r \in createPlaceService(body) :
          /\ req' = [op |-> "createPlace", body |-> body]
          /\ places' = r.places
          /\ nextPlaceId' = r.nextPlaceId
          /\ resp' = IF r.ok THEN [status |-> 201, error |-> FALSE]
                     ELSE Error(500)
    /\ UNCHANGED userVars

\* GET /places: SELECT ... FROM "Place", in the order of the scan
getAllPlaces ==
    /\ Idle
    /\ \E ord \in ScanOrders(DOMAIN places) :
          /\ req' = [op |-> "getAllPlaces"]
          /\ resp' = [status |-> 200, error |-> FALSE,
                      rows |-> [i \in DOMAIN ord |-> PlaceRow(ord[i])]]
    /\ UNCHANGED <<placeVars, userVars>>

\* GET /places/:id: the row, or {} when there is none
getPlaceById ==
    /\ Idle
    /\ \E id \in 1 .. MaxPlaces :
          /\ req' = [op |-> "getPlaceById", id |-> id]
          /\ resp' = [status |-> 200, error |-> FALSE,
                      rows |-> IF id \in DOMAIN places
                                 THEN <<PlaceRow(id)>> ELSE <<>>]
    /\ UNCHANGED <<placeVars, userVars>>

\* POST /places/seed
seedTestData ==
    /\ Idle
    /\ nextPlaceId + 2 <= MaxPlaces
    /\ req' = [op |-> "seedTestData"]
    /\ places' = seedTestPlaces
    /\ nextPlaceId' = nextPlaceId + 3
    /\ resp' = [status |-> 201, error |-> FALSE]
    /\ UNCHANGED userVars

\* req.query.radius || '5000', parsed
placeRadius(radius) == parseFloat(IF Falsy(radius) THEN Num(5000) ELSE radius)

\* the answers findNearbyPlaces can give to the query q
findNearbyPlacesResponses(q) ==
    {IF r.ok THEN [status |-> 200, error |-> FALSE, rows |-> r.rows]
     ELSE Error(500)
     : r \in findNearbyPlacesService(parseFloat(q.lat), parseFloat(q.lng),
                                     placeRadius(q.radius))}

\* GET /places/nearby/search?lat=&lng=&radius=
findNearbyPlaces ==
    /\ Idle
    /\ \E q \in PlaceQueries :
          /\ req' = [op |-> "findNearbyPlaces", lat |-> q.lat, lng |-> q.lng,
                     radius |-> q.radius]
          /\ resp' \in findNearbyPlacesResponses(q)
    /\ UNCHANGED <<placeVars, userVars>>

\* GET /places/route/distance?fromLat=&fromLng=&toLat=&toLng=
getDistanceBetweenPlaces ==
    /\ Idle
    /\ \E q \in RouteQueries :
          \E r \in getDistanceService(q.fromLat, q.fromLng, q.toLat, q.toLng) :
             /\ req' = [op |-> "getDistanceBetweenPlaces",
                        fromLat |-> q.fromLat, fromLng |-> q.fromLng,
                        toLat |-> q.toLat, toLng |-> q.toLng]
             /\ resp' = IF r.ok
                          THEN [status |-> 200, error |-> FALSE,
                                distance |-> r.distance]
                          ELSE Error(500)
    /\ UNCHANGED <<placeVars, userVars>>

---------------------------------------------------------------------------
(* Users: src/services/user.service.js *)

\* strings are sequences of characters
Ann == <<"a", "n", "n">>
Bob == <<"b", "o", "b">>
AnnMail == <<"a", "@", "x">>
BobMail == <<"b", "@", "x">>
Secret == <<"s", "e", "c", "r", "e", "t">>
Wrong == <<"w", "r", "o", "n", "g", "1">>
Short == <<"a", "b", "c">>

\* String.prototype.toLowerCase and LOWER(), on the letters the requests use
LowerChar(c) ==
    CASE c = "A" -> "a"
      [] c = "N" -> "n"
      [] c = "U" -> "u"
      [] OTHER -> c

toLowerCase(s) == [i \in 1..Len(s) |-> LowerChar(s[i])]

RECURSIVE trim(_)
\* String.prototype.trim
trim(s) ==
    IF s = <<>> THEN s
    ELSE IF Head(s) = " " THEN trim(Tail(s))
    ELSE IF s[Len(s)] = " " THEN trim(SubSeq(s, 1, Len(s) - 1))
    ELSE s

\* s LIKE 'q%'
StartsWith(s, q) == Len(q) <= Len(s) /\ SubSeq(s, 1, Len(q)) = q

\* s LIKE '%q%' (q holds no wildcard)
Contains(s, q) ==
    \E i \in 0..(Len(s) - Len(q)) : SubSeq(s, i + 1, i + Len(q)) = q

DigitChars == <<"0", "1", "2", "3", "4", "5", "6", "7", "8", "9">>

RECURSIVE Digits(_)
\* the decimal digits of n
Digits(n) ==
    IF n < 10 THEN <<DigitChars[n + 1]>>
    ELSE Digits(n \div 10) \o <<DigitChars[(n % 10) + 1]>>

\* bcrypt.hash(password, saltRounds) and bcrypt.compare(password, hash)
bcryptHash(password) == [bcrypt |-> password]
bcryptCompare(password, hash) == hash.bcrypt = password

\* a column that is NULL
Null == [k |-> "null", v |-> 0]

\* prisma.user.create({data: {username, email, password, fullName}}): the
\* other columns take their defaults
NewUser(username, email, hashedPassword, fullName) ==
    [username |-> username, email |-> email, password |-> hashedPassword,
     fullName |-> IF Falsy(fullName) THEN Null ELSE fullName,
     bio |-> Null, avatarUrl |-> Null, coordinates |-> NullPoint,
     storyCount |-> 0, likeCount |-> 0, commentCount |-> 0]

Insert(table, id, row) ==
    [i \in DOMAIN table \cup {id} |-> IF i = id THEN row ELSE table[i]]

Remove(table, id) == [i \in DOMAIN table \ {id} |-> table[i]]

\* the columns createUserService and authenticateToken select: no password,
\* no coordinates
PrivateRowOf(t, id) ==
    [id |-> id, username |-> t[id].username, email |-> t[id].email,
     fullName |-> t[id].fullName, avatarUrl |-> t[id].avatarUrl,
     bio |-> t[id].bio, storyCount |-> t[id].storyCount,
     likeCount |-> t[id].likeCount, commentCount |-> t[id].commentCount]

PrivateRow(id) == PrivateRowOf(users, id)

\* mutant: the public view selects the email too
PublicRowWithEmail(t, id) ==
    [id |-> id, username |-> t[id].username, fullName |-> t[id].fullName,
     email |-> t[id].email,
     avatarUrl |-> t[id].avatarUrl, bio |-> t[id].bio,
     storyCount |-> t[id].storyCount, likeCount |-> t[id].likeCount,
     commentCount |-> t[id].commentCount,
     coordinates |-> ST_AsText(t[id].coordinates)]

\* the columns of the public view, in a table `t`
PublicRowOf(t, id) ==
    [id |-> id, username |-> t[id].username, fullName |-> t[id].fullName,
     avatarUrl |-> t[id].avatarUrl, bio |-> t[id].bio,
     storyCount |-> t[id].storyCount, likeCount |-> t[id].likeCount,
     commentCount |-> t[id].commentCount,
     coordinates |-> ST_AsText(t[id].coordinates)]

\* mutant: findFirst({where: {email}}), the username is not looked up
createUserServiceEmailOnly(username, email, password, fullName) ==
    IF \E i \in DOMAIN users : users[i].email = email
      THEN [ok |-> FALSE, exists |-> TRUE, users |-> users, id |-> 0]
      ELSE [ok |-> TRUE, exists |-> FALSE,
            users |-> Insert(users, nextUserId,
                             NewUser(username, email, bcryptHash(password),
                                     fullName)),
            id |-> nextUserId]

\* createUserService: [ok, exists, users, id]
createUserService(username, email, password, fullName) ==
    IF \E i \in DOMAIN users :
          users[i].email = email \/ users[i].username = username
      THEN [ok |-> FALSE, exists |-> TRUE, users |-> users, id |-> 0]
      ELSE [ok |-> TRUE, exists |-> FALSE,
            users |-> Insert(users, nextUserId,
                             NewUser(username, email, bcryptHash(password),
                                     fullName)),
            id |-> nextUserId]

\* loginUserService: the ids it can log in (findFirst returns any one row
\* that matches), or none: 'Invalid credentials'
loginUserService(emailOrUsername, password) ==
    LET found == {i \in DOMAIN users :
                     \/ users[i].email = emailOrUsername
                     \/ users[i].username = emailOrUsername}
    IN  IF found = {} THEN {[ok |-> FALSE, id |-> 0]}
        ELSE {IF bcryptCompare(password, users[i].password)
                THEN [ok |-> TRUE, id |-> i]
                ELSE [ok |-> FALSE, id |-> 0] : i \in found}

\* getUserProfileService(userId) in a table `t`: [found, row]
getUserProfileService(t, userId) ==
    IF userId \in DOMAIN t
      THEN [found |-> TRUE, row |-> PublicRowOf(t, userId)]
      ELSE [found |-> FALSE, row |-> Null]

\* "fullName" and the other profile columns are text (searchUsersService
\* applies LOWER to it): prisma.user.update takes a string or null for them
\* and throws on any other value
ValidText(x) == x.k \in {"undef", "str", "null"}

\* updateUserProfileService(userId, updateData): the possible [ok, users]
\* outcomes.  The raw UPDATE of the coordinates runs first, when both
\* latitude and longitude are given; prisma.user.update of the other fields
\* follows and throws when there is no such row or a field is no text.
updateUserProfileService(userId, d) ==
    LET withCoord(g) ==
            IF userId \in DOMAIN users
              THEN [users EXCEPT ![userId].coordinates = g]
              ELSE users
        fields(t) ==
            [t EXCEPT ![userId].fullName =
                          IF d.fullName.k = "undef" THEN @ ELSE d.fullName,
                      ![userId].avatarUrl =
                          IF d.avatarUrl.k = "undef" THEN @ ELSE d.avatarUrl]
        rest(t) ==
            IF d.fullName.k = "undef" /\ d.avatarUrl.k = "undef"
              THEN [ok |-> TRUE, users |-> t]
            ELSE IF userId \in DOMAIN t /\ ValidText(d.fullName)
              THEN [ok |-> TRUE, users |-> fields(t)]
            ELSE [ok |-> FALSE, users |-> t]
    IN  IF d.latitude.k # "undef" /\ d.longitude.k # "undef"
          THEN {IF g.ok THEN rest(withCoord(g.geo))
                ELSE [ok |-> FALSE, users |-> users]
                : g \in ST_GeographyFromText(d.longitude, d.latitude)}
          ELSE {rest(users)}

\* mutant: GREATEST(0, n) left out
MaxUnclamped(a, b) == b

Max(a, b) == IF a >= b THEN a ELSE b

validStats == {"storyCount", "likeCount", "commentCount"}

\* the engagement counters of all the rows of a table `t`, added up
RECURSIVE StatsTotal(_)
StatsTotal(t) ==
    IF DOMAIN t = {} THEN 0
    ELSE LET i == CHOOSE j \in DOMAIN t : TRUE
         IN  t[i].storyCount + t[i].likeCount + t[i].commentCount
                 + StatsTotal(Remove(t, i))

\* mutant: a statType that is not a counter counts as a story
updateUserStatsServiceAnyType(userId, statType, increment) ==
    LET name == IF statType \in validStats THEN statType ELSE "storyCount"
    IN  IF increment.k # "num"
          THEN {[ok |-> FALSE, invalid |-> FALSE, users |-> users]}
        ELSE {[ok |-> TRUE, invalid |-> FALSE,
               users |-> IF userId \in DOMAIN users
                           THEN [users EXCEPT ![userId][name] =
                                    Max(0, @ + increment.v)]
                           ELSE users]}

\* updateUserStatsService(userId, statType, increment): the possible
\* [ok, invalid, users] outcomes.  UPDATE ... SET "n" = GREATEST(0, "n" + d)
\* WHERE id = userId changes no row when there is no such user.  A NaN
\* increment is raised by the store or taken as NULL, and GREATEST(0, NULL)
\* is 0.
updateUserStatsService(userId, statType, increment) ==
    LET set(n) == IF userId \in DOMAIN users
                    THEN [users EXCEPT ![userId][statType] = n]
                    ELSE users
    IN  IF statType \notin validStats
          THEN {[ok |-> FALSE, invalid |-> TRUE, users |-> users]}
        ELSE IF increment.k # "num"
          THEN {[ok |-> FALSE, invalid |-> FALSE, users |-> users],
                [ok |-> TRUE, invalid |-> FALSE, users |-> set(0)]}
        ELSE {[ok |-> TRUE, invalid |-> FALSE,
               users |-> IF userId \in DOMAIN users
                           THEN set(Max(0, users[userId][statType]
                                              + increment.v))
                           ELSE users]}

\* getUserEngagementService(userId) : [found, row]
getUserEngagementService(userId) ==
    IF userId \in DOMAIN users
      THEN [found |-> TRUE,
            row |-> [id |-> userId, username |-> users[userId].username,
                     storyCount |-> users[userId].storyCount,
                     likeCount |-> users[userId].likeCount,
                     commentCount |-> users[userId].commentCount]]
      ELSE [found |-> FALSE, row |-> Null]

\* mutant: the row is kept (a soft delete)
deleteUserServiceKeepsRow(userId) ==
    [ok |-> userId \in DOMAIN users, users |-> users]

\* deleteUserService: prisma.user.delete throws when there is no such row
deleteUserService(userId) ==
    IF userId \in DOMAIN users
      THEN [ok |-> TRUE, users |-> Remove(users, userId)]
      ELSE [ok |-> FALSE, users |-> users]

\* mutant: WHERE coordinates IS NULL OR ST_DWithin(...)
UsersWithinOrNull(center, radius) ==
    {id \in DOMAIN users :
        \/ users[id].coordinates.isNull
        \/ ST_DWithin(users[id].coordinates, center, radius)}

\* the ids of the users WHERE coordinates IS NOT NULL AND ST_DWithin(...)
UsersWithin(center, radius) ==
    {id \in DOMAIN users :
        /\ ~users[id].coordinates.isNull
        /\ ST_DWithin(users[id].coordinates, center, radius)}

NearbyRow(id, center) ==
    [id |-> id, username |-> users[id].username,
     fullName |-> users[id].fullName, avatarUrl |-> users[id].avatarUrl,
     bio |-> users[id].bio, storyCount |-> users[id].storyCount,
     likeCount |-> users[id].likeCount,
     commentCount |-> users[id].commentCount,
     coordinates |-> ST_AsText(users[id].coordinates),
     distance |-> ST_Distance(users[id].coordinates, center)]

\* getNearbyUsersService(latitude, longitude, radius, limit): the possible
\* [ok, rows] outcomes.  ORDER BY distance ASC leaves rows of equal distance
\* in the order of the scan.  A NaN radius or limit is raised by the store or
\* taken as NULL (no row is within NULL; LIMIT NULL is no limit); a negative
\* LIMIT is an error.
getNearbyUsersService(latitude, longitude, radius, limit) ==
    UNION {IF ~c.ok \/ (limit.k = "num" /\ limit.v < 0)
             THEN {[ok |-> FALSE, rows |-> <<>>]}
           ELSE IF c.geo.isNull \/ radius.k # "num"
             THEN {[ok |-> FALSE, rows |-> <<>>], [ok |-> TRUE, rows |-> <<>>]}
           ELSE LET dist == [id \in DOMAIN users |->
                               IF users[id].coordinates.isNull THEN 0
                               ELSE ST_Distance(users[id].coordinates, c.geo)]
                    sorted(ord) == OrderBy(ord, dist)
                    rows(ids) == [i \in DOMAIN ids |-> NearbyRow(ids[i], c.geo)]
                IN  IF limit.k # "num"
                      THEN {[ok |-> FALSE, rows |-> <<>>]} \cup
                           {[ok |-> TRUE, rows |-> rows(sorted(ord))]
                            : ord \in ScanOrders(UsersWithin(c.geo, radius.v))}
                      ELSE {[ok |-> TRUE,
                             rows |-> rows(Limit(sorted(ord), limit.v))]
                            : ord \in ScanOrders(UsersWithin(c.geo, radius.v))}
          : c \in ST_MakePoint(longitude, latitude)}

\* the columns searchUsersService selects
SearchRow(id) == PublicRowOf(users, id)

\* searchUsersService(query, limit): the possible [ok, rows] outcomes.  The
\* rows whose username or fullName holds the query, case-insensitively;
\* ORDER BY the rank of the match, "storyCount" DESC, "likeCount" DESC; rows
\* equal in all three stay in the order of the scan.  A NaN limit is raised
\* by the store or taken as NULL (no limit); a negative LIMIT is an error.
searchUsersService(query, limit) ==
    LET q == toLowerCase(query)
        username(id) == toLowerCase(users[id].username)
        hasName(id) == users[id].fullName.k = "str"
        fullName(id) == toLowerCase(users[id].fullName.s)
        matching == {id \in DOMAIN users :
                        \/ Contains(username(id), q)
                        \/ hasName(id) /\ Contains(fullName(id), q)}
        rank == [id \in DOMAIN users |->
                    IF username(id) = q THEN 1
                    ELSE IF hasName(id) /\ fullName(id) = q THEN 2
                    ELSE IF StartsWith(username(id), q) THEN 3
                    ELSE IF hasName(id) /\ StartsWith(fullName(id), q) THEN 4
                    ELSE 5]
        stories == [id \in DOMAIN users |-> 0 - users[id].storyCount]
        likes == [id \in DOMAIN users |-> 0 - users[id].likeCount]
        sorted(ord) == OrderBy(OrderBy(OrderBy(ord, likes), stories), rank)
        rows(ids) == [i \in DOMAIN ids |-> SearchRow(ids[i])]
    IN  IF limit.k = "num" /\ limit.v < 0
          THEN {[ok |-> FALSE, rows |-> <<>>]}
        ELSE IF limit.k # "num"
          THEN {[ok |-> FALSE, rows |-> <<>>]} \cup
               {[ok |-> TRUE, rows |-> rows(sorted(ord))]
                : ord \in ScanOrders(matching)}
        ELSE {[ok |-> TRUE, rows |-> rows(Limit(sorted(ord), limit.v))]
              : ord \in ScanOrders(matching)}

---------------------------------------------------------------------------
(* The image host: src/services/cloudinary.service.js *)

\* the secure_url of an uploaded asset n; w is the width of the
\* transformation spliced into the path (0: none)
Url(n) == [k |-> "url", v |-> n, w |-> 0]

\* getOptimizedAvatarUrl(avatarUrl, {width, height})
getOptimizedAvatarUrl(avatarUrl, width) ==
    IF avatarUrl.k # "url" THEN avatarUrl ELSE [avatarUrl EXCEPT !.w = width]

\* the asset names the host has not handed out or has been made to forget
FreshUrls ==
    {Url(n) : n \in 1..MaxAssets}
        \ (assets \cup {users[i].avatarUrl : i \in DOMAIN users})

\* uploadAvatar(fileBuffer, userId): the possible [ok, url] outcomes.  The
\* host stores the image under a name it has not used (the public_id ends in
\* Date.now()) and answers its secure_url, or the upload fails.
uploadAvatar(userId) ==
    {[ok |-> FALSE, url |-> Null]}
        \cup {[ok |-> TRUE, url |-> u] :
                u \in {f \in FreshUrls : \A g \in FreshUrls : f.v <= g.v}}

\* deleteAvatar(imageUrl): the host destroys the asset, or the call fails and
\* the failure is only logged.  The possible sets of assets afterwards.
deleteAvatar(imageUrl) ==
    IF imageUrl.k # "url" THEN {assets}
    ELSE {assets, assets \ {imageUrl}}

---------------------------------------------------------------------------
(* The middleware: src/middleware/auth.middleware.js *)

NoToken == [k |-> "none", userId |-> 0]
BadToken == [k |-> "bad", userId |-> 0]
Bearer(id) == [k |-> "jwt", userId |-> id]

\* the Authorization headers a client can send: none, one that does not
\* verify, or a token that was issued
Auths == {NoToken, BadToken} \cup {Bearer(id) : id \in tokens}

\* mutant: a request without a token goes on to the handler, with no req.user
authenticateTokenLax(auth) ==
    IF auth.k = "bad" THEN [status |-> 401, userId |-> 0]
    ELSE IF auth.k = "jwt" /\ auth.userId \notin DOMAIN users
      THEN [status |-> 401, userId |-> 0]
    ELSE [status |-> 0, userId |-> auth.userId]

\* mutant: the token is verified and the user of the token is not looked up
authenticateTokenUnchecked(auth) ==
    IF auth.k = "none" THEN [status |-> 401, userId |-> 0]
    ELSE IF auth.k = "bad" THEN [status |-> 401, userId |-> 0]
    ELSE [status |-> 0, userId |-> auth.userId]

\* authenticateToken: the status it answers, or 0 when it calls next()
\* with req.user set to the row of userId
authenticateToken(auth) ==
    IF auth.k = "none" THEN [status |-> 401, userId |-> 0]
    ELSE IF auth.k = "bad" THEN [status |-> 401, userId |-> 0]
    ELSE IF auth.userId \notin DOMAIN users THEN [status |-> 401, userId |-> 0]
    ELSE [status |-> 0, userId |-> auth.userId]

\* mutant: every authenticated user passes
authorizeOwnerAny(requestedUserId, currentUserId) == 0

\* authorizeOwner, after authenticateToken
authorizeOwner(requestedUserId, currentUserId) ==
    IF requestedUserId # currentUserId THEN 403 ELSE 0

\* authenticateToken, authorizeOwner: the status that ends the request
\* before its handler, or 0
OwnerGate(auth, id) ==
    LET a == authenticateToken(auth)
    IN  IF a.status # 0 THEN a.status ELSE authorizeOwner(id, a.userId)

\* mutant: authorizeOwner mounted on the stats route as well
StatsGateOwner(auth, id) == OwnerGate(auth, id)

\* router.put('/:id/stats', authenticateToken, updateUserStats): the status
\* that ends the request before its handler, or 0
StatsGate(auth, id) == authenticateToken(auth).status

---------------------------------------------------------------------------
(* Users: the requests the model draws *)

\* POST /users/register bodies: two accounts, one that takes the username
\* of the first with the email of the second, one whose username is the
\* email of the second (with a password of its own), a short and a missing
\* password
RegisterBodies ==
    {[username |-> Str(b[1]), email |-> Str(b[2]), password |-> Str(Secret),
      fullName |-> Undef] :
        b \in {<<Ann, AnnMail>>, <<Bob, BobMail>>, <<Ann, BobMail>>}}
    \cup {[username |-> Str(BobMail), email |-> Str(AnnMail),
           password |-> Str(Wrong), fullName |-> Undef]}
    \cup {[username |-> Str(Ann), email |-> Str(AnnMail), password |-> p,
           fullName |-> Undef] : p \in {Str(Short), Undef}}

LoginBodies ==
    {[emailOrUsername |-> x, password |-> p] :
        x \in {Str(Ann), Str(Bob), Str(BobMail)},
        p \in {Str(Secret), Str(Wrong)}}
    \cup {[emailOrUsername |-> Str(Ann), password |-> Undef]}

\* the fields of a PUT /users/:id body (fullName stands for the eight text
\* fields, which the handler treats alike), with a fullName that is a
\* number
ProfileBodies ==
    {[fullName |-> f, avatarUrl |-> Undef, latitude |-> c[1],
      longitude |-> c[2]] :
        f \in {Undef, Str(<<"A", "n", "n">>)},
        c \in {<<Undef, Undef>>, <<Num(30040000), Num(31230000)>>,
               <<Num(30100000), Num(31230000)>>, <<Num(30040000), Undef>>}}
    \cup {[fullName |-> Num(123), avatarUrl |-> Undef, latitude |-> c[1],
            longitude |-> c[2]] :
             c \in {<<Undef, Undef>>, <<Num(30100000), Num(31230000)>>}}

UserIds == 1 .. MaxUsers

\* GET /users/search queries: a name in either case, with every limit; the
\* stem of the usernames of a populated store, with a limit or none; a
\* padded query, a query of one character and none
SearchQueries ==
    {[q |-> Str(Ann), limit |-> li] : li \in QueryLimits \cup {Num(60)}}
    \cup {[q |-> Str(<<"u", "s", "r">>), limit |-> li] :
            li \in {Undef, Num(60)}}
    \cup {[q |-> x, limit |-> Undef] :
            x \in {Str(<<"A", "N">>), Str(<<" ", "a", "n", " ">>),
                   Str(<<"a", " ">>), Undef}}

\* PUT /users/:id requests: every body under the token of :id itself, and
\* one body under every other Authorization header
UpdateRequests ==
    {[id |-> id, auth |-> Bearer(id), body |-> b] :
        id \in UserIds \cap tokens, b \in ProfileBodies}
    \cup {[id |-> id, auth |-> a,
           body |-> [fullName |-> Str(<<"A", "n", "n">>), avatarUrl |-> Undef,
                     latitude |-> Num(30040000),
                     longitude |-> Num(31230000)]] :
            id \in UserIds, a \in Auths}

\* req.file after upload.single('avatar'): an image, no file, or a file that
\* the fileFilter refuses
Files == {"image", "none", "other"}

\* POST /users/:id/avatar requests: every file under the token of :id itself,
\* and an image under every other Authorization header
AvatarRequests ==
    {[id |-> id, auth |-> Bearer(id), file |-> f] :
        id \in UserIds \cap tokens, f \in Files}
    \cup {[id |-> id, auth |-> a, file |-> "image"] :
            id \in UserIds, a \in Auths}

\* PUT /users/:id/stats bodies: each counter and a name that is none, up or
\* down; a body whose increment is not a number, one without increment and
\* the empty body
StatsBodies ==
    {[statType |-> Str(s), increment |-> Num(d)] :
        s \in validStats \cup {"invalidStat"}, d \in {5, -7}}
    \cup {[statType |-> Str("storyCount"), increment |-> Text],
           [statType |-> Str("invalidStat"), increment |-> Undef],
           [statType |-> Undef, increment |-> Undef]}

\* PUT /users/:id/stats requests: every body under every token, and one body
\* under the other Authorization headers
StatsRequests ==
    {[id |-> id, auth |-> Bearer(u), body |-> b] :
        id \in UserIds, u \in tokens, b \in StatsBodies}
    \cup {[id |-> id, auth |-> a,
           body |-> [statType |-> Str("storyCount"), increment |-> Num(5)]] :
            id \in UserIds, a \in {NoToken, BadToken}}

---------------------------------------------------------------------------
(* Users: the controllers (src/controllers/user.controller.js) *)

\* POST /users/register
registerUser ==
    /\ Idle
    /\ nextUserId <= MaxUsers
    /\ \E body \in RegisterBodies :
          /\ req' = [op |-> "registerUser", body |-> body]
          /\ IF Falsy(body.username) \/ Falsy(body.email)
                  \/ Falsy(body.password)
               THEN /\ resp' = Error(400)
                    /\ UNCHANGED <<users, nextUserId>>
             ELSE IF Len(body.password.s) < 6
               THEN /\ resp' = Error(400)
                    /\ UNCHANGED <<users, nextUserId>>
             ELSE LET r == createUserService(body.username.s, body.email.s,
                                             body.password.s, body.fullName)
                  IN  IF r.ok
                        THEN /\ users' = r.users
                             /\ nextUserId' = nextUserId + 1
                             /\ resp' = [status |-> 201, error |-> FALSE,
                                         user |-> PrivateRowOf(r.users, r.id)]
                        ELSE /\ resp' = Error(409)
                             /\ UNCHANGED <<users, nextUserId>>
    /\ UNCHANGED <<placeVars, ledger, tokens, assets, deleted, inflight>>

\* POST /users/login
loginUser ==
    /\ Idle
    /\ \E body \in LoginBodies :
          /\ req' = [op |-> "loginUser", body |-> body]
          /\ IF Falsy(body.emailOrUsername) \/ Falsy(body.password)
               THEN /\ resp' = Error(400)
                    /\ UNCHANGED tokens
               ELSE \E r \in loginUserService(body.emailOrUsername.s,
                                              body.password.s) :
                       IF r.ok
                         THEN /\ tokens' = tokens \cup {r.id}
                              /\ resp' = [status |-> 200, error |-> FALSE,
                                          user |-> PrivateRow(r.id),
                                          token |-> Bearer(r.id)]
                         ELSE /\ resp' = Error(401)
                              /\ UNCHANGED tokens
    /\ UNCHANGED <<placeVars, ledger, users, nextUserId,
                   assets, deleted, inflight>>

\* GET /users/:id
getUserProfile ==
    /\ Idle
    /\ \E id \in {Num(i) : i \in UserIds} \cup {Text} :
          /\ req' = [op |-> "getUserProfile", id |-> id]
          /\ IF isNaN(parseFloat(id)) THEN resp' = Error(400)
             ELSE LET r == getUserProfileService(users, id.v)
                  IN  IF ~r.found THEN resp' = Error(404)
                      ELSE resp' =
                             [status |-> 200, error |-> FALSE,
                              user |-> [r.row EXCEPT !.avatarUrl =
                                           getOptimizedAvatarUrl(@, 200)]]
    /\ UNCHANGED <<placeVars, userVars>>

\* PUT /users/:id
updateUserProfile ==
    /\ Idle
    /\ \E q \in UpdateRequests :
          LET id == q.id
              auth == q.auth
              body == q.body
          IN
          /\ req' = [op |-> "updateUserProfile", id |-> id, auth |-> auth,
                     body |-> body]
          /\ IF OwnerGate(auth, id) # 0
               THEN /\ resp' = Error(OwnerGate(auth, id))
                    /\ UNCHANGED users
               ELSE \E r \in updateUserProfileService(id, body) :
                       /\ users' = r.users
                       /\ LET p == getUserProfileService(r.users, id)
                          IN  resp' =
                                IF r.ok /\ p.found
                                  THEN [status |-> 200, error |-> FALSE,
                                        user |-> [p.row EXCEPT !.avatarUrl =
                                            getOptimizedAvatarUrl(@, 200)]]
                                  ELSE Error(500)
    /\ UNCHANGED <<placeVars, ledger, nextUserId, tokens,
                   assets, deleted, inflight>>

\* mutant: the old avatar is deleted before the new one is uploaded
assetsAfterFailedUploadOldDeleted(currentUser) ==
    IF currentUser.found THEN deleteAvatar(currentUser.row.avatarUrl)
    ELSE {assets}

\* uploadUserAvatar awaits uploadAvatar before it calls deleteAvatar: when
\* the upload throws, the handler is in its catch block and the assets of
\* the host are what they were
assetsAfterFailedUpload(currentUser) == {assets}

\* POST /users/:id/avatar.  A file the fileFilter refuses ends the request in
\* the router's error handler (500) before the controller runs.
uploadUserAvatar ==
    /\ Idle
    /\ FreshUrls # {}
    /\ \E q \in AvatarRequests :
          /\ req' = [op |-> "uploadUserAvatar", id |-> q.id, auth |-> q.auth,
                     file |-> q.file]
          /\ IF OwnerGate(q.auth, q.id) # 0
               THEN /\ resp' = Error(OwnerGate(q.auth, q.id))
                    /\ UNCHANGED <<users, assets>>
             ELSE IF q.file = "other"
               THEN /\ resp' = Error(500)
                    /\ UNCHANGED <<users, assets>>
             ELSE IF q.file = "none"
               THEN /\ resp' = Error(400)
                    /\ UNCHANGED <<users, assets>>
             ELSE \E up \in uploadAvatar(q.id) :
                    IF ~up.ok
                      THEN /\ resp' = Error(500)
                           /\ assets' \in assetsAfterFailedUpload(
                                              getUserProfileService(users, q.id))
                           /\ UNCHANGED users
                      ELSE LET currentUser == getUserProfileService(users, q.id)
                               d == [fullName |-> Undef, avatarUrl |-> up.url,
                                     latitude |-> Undef, longitude |-> Undef]
                           IN  \E kept \in
                                     (IF currentUser.found
                                        THEN deleteAvatar(currentUser.row.avatarUrl)
                                        ELSE {assets}),
                                  r \in updateUserProfileService(q.id, d) :
                                  /\ assets' = kept \cup {up.url}
                                  /\ users' = r.users
                                  /\ LET p == getUserProfileService(r.users, q.id)
                                         url == getOptimizedAvatarUrl(up.url, 200)
                                     IN  resp' =
                                           IF r.ok /\ p.found
                                             THEN [status |-> 200,
                                                   error |-> FALSE,
                                                   user |-> [p.row EXCEPT
                                                       !.avatarUrl = url],
                                                   avatarUrl |-> url]
                                             ELSE Error(500)
    /\ UNCHANGED <<placeVars, ledger, nextUserId, tokens, deleted, inflight>>

\* GET /users/me
getCurrentUserProfile ==
    /\ Idle
    /\ \E auth \in Auths :
          /\ req' = [op |-> "getCurrentUserProfile", auth |-> auth]
          /\ LET a == authenticateToken(auth)
                 fullProfile == getUserProfileService(users, a.userId)
             IN  resp' =
                   IF a.status # 0 THEN Error(a.status)
                   ELSE IF ~fullProfile.found THEN Error(500)
                   ELSE [status |-> 200, error |-> FALSE,
                         user |-> [field \in DOMAIN fullProfile.row
                                              \cup {"email"} |->
                                     IF field = "email"
                                       THEN PrivateRow(a.userId).email
                                     ELSE IF field = "avatarUrl"
                                       THEN getOptimizedAvatarUrl(
                                                fullProfile.row.avatarUrl, 200)
                                     ELSE fullProfile.row[field]]]
    /\ UNCHANGED <<placeVars, userVars>>

\* const { statType, increment = 1 } = req.body; parseInt(increment)
statsIncrement(increment) ==
    parseFloat(IF increment.k = "undef" THEN Num(1) ELSE increment)

\* PUT /users/:id/stats
updateUserStats ==
    /\ Idle
    /\ \E q \in StatsRequests :
          /\ req' = [op |-> "updateUserStats", id |-> q.id, auth |-> q.auth,
                     body |-> q.body]
          /\ IF StatsGate(q.auth, q.id) # 0
               THEN /\ resp' = Error(StatsGate(q.auth, q.id))
                    /\ UNCHANGED users
             ELSE IF Falsy(q.body.statType)
               THEN /\ resp' = Error(400)
                    /\ UNCHANGED users
             ELSE \E r \in updateUserStatsService(
                              q.id, q.body.statType.s,
                              statsIncrement(q.body.increment)) :
                    /\ StatsTotal(r.users) <= MaxStat
                    /\ users' = r.users
                    /\ LET p == getUserProfileService(r.users, q.id)
                       IN  resp' =
                             IF r.invalid THEN Error(400)
                             ELSE IF ~r.ok THEN Error(500)
                             ELSE [status |-> 200, error |-> FALSE,
                                   user |-> p.row]
    /\ UNCHANGED <<placeVars, ledger, nextUserId, tokens,
                   assets, deleted, inflight>>

\* GET /users/:id/engagement
getUserEngagement ==
    /\ Idle
    /\ \E id \in {Num(i) : i \in UserIds} \cup {Text} :
          /\ req' = [op |-> "getUserEngagement", id |-> id]
          /\ IF isNaN(parseFloat(id)) THEN resp' = Error(400)
             ELSE LET r == getUserEngagementService(id.v)
                  IN  resp' = IF ~r.found THEN Error(404)
                              ELSE [status |-> 200, error |-> FALSE,
                                    user |-> r.row]
    /\ UNCHANGED <<placeVars, userVars>>

\* DELETE /users/:id
deleteUser ==
    /\ Idle
    /\ \E id \in UserIds, auth \in Auths :
          /\ req' = [op |-> "deleteUser", id |-> id, auth |-> auth]
          /\ IF OwnerGate(auth, id) # 0
               THEN /\ resp' = Error(OwnerGate(auth, id))
                    /\ UNCHANGED <<users, assets, deleted>>
               ELSE LET user == getUserProfileService(users, id)
                        r == deleteUserService(id)
                    IN  /\ assets' \in
                              IF user.found
                                THEN deleteAvatar(user.row.avatarUrl)
                                ELSE {assets}
                        /\ users' = r.users
                        /\ IF r.ok
                             THEN /\ resp' = [status |-> 200, error |-> FALSE]
                                  /\ deleted' = deleted \cup {id}
                             ELSE /\ resp' = Error(500)
                                  /\ UNCHANGED deleted
    /\ UNCHANGED <<placeVars, ledger, nextUserId, tokens, inflight>>

\* mutant: the default of the place search, req.query.radius || '5000'
searchRadiusAsPlaces(radius) ==
    parseFloat(IF Falsy(radius) THEN Num(5000) ELSE radius)

\* const { radius = 10000, limit = 50 } = req.query, parsed
searchRadius(radius) ==
    parseFloat(IF radius.k = "undef" THEN Num(10000) ELSE radius)

searchLimit(limit) == parseFloat(IF limit.k = "undef" THEN Num(50) ELSE limit)

\* the answers getNearbyUsers can give to the query q
getNearbyUsersResponses(q) ==
    LET latitude == parseFloat(q.lat)
        longitude == parseFloat(q.lng)
    IN  IF Falsy(q.lat) \/ Falsy(q.lng) THEN {Error(400)}
        ELSE IF isNaN(latitude) \/ isNaN(longitude) THEN {Error(400)}
        ELSE {IF ~r.ok THEN Error(500)
              ELSE [status |-> 200, error |-> FALSE,
                    center |-> [latitude |-> latitude.v,
                                longitude |-> longitude.v],
                    radius |-> searchRadius(q.radius),
                    count |-> Len(r.rows),
                    users |->
                      [i \in DOMAIN r.rows |->
                         [r.rows[i] EXCEPT
                            !.avatarUrl = getOptimizedAvatarUrl(@, 100),
                            !.distance = MathRound(@)]]]
              : r \in getNearbyUsersService(latitude, longitude,
                                            searchRadius(q.radius),
                                            searchLimit(q.limit))}

\* GET /users/nearby?lat=&lng=&radius=&limit=
getNearbyUsers ==
    /\ Idle
    /\ \E q \in UserQueries :
          /\ req' = [op |-> "getNearbyUsers", lat |-> q.lat, lng |-> q.lng,
                     radius |-> q.radius, limit |-> q.limit]
          /\ resp' \in getNearbyUsersResponses(q)
    /\ UNCHANGED <<placeVars, userVars>>

\* const { q: query, limit = 20 } = req.query; parseInt(limit)
searchUsersLimit(limit) ==
    parseFloat(IF limit.k = "undef" THEN Num(20) ELSE limit)

\* the answers searchUsers can give to the query s
searchUsersResponses(s) ==
    IF Falsy(s.q) \/ Len(trim(s.q.s)) < 2 THEN {Error(400)}
    ELSE {IF ~r.ok THEN Error(500)
          ELSE [status |-> 200, error |-> FALSE, query |-> trim(s.q.s),
                count |-> Len(r.rows),
                users |->
                  [i \in DOMAIN r.rows |->
                     [r.rows[i] EXCEPT
                        !.avatarUrl = getOptimizedAvatarUrl(@, 100)]]]
          : r \in searchUsersService(trim(s.q.s), searchUsersLimit(s.limit))}

\* GET /users/search?q=&limit=
searchUsers ==
    /\ Idle
    /\ \E s \in SearchQueries :
          /\ req' = [op |-> "searchUsers", q |-> s.q, limit |-> s.limit]
          /\ resp' \in searchUsersResponses(s)
    /\ UNCHANGED <<placeVars, userVars>>

---------------------------------------------------------------------------

Init ==
    /\ places = <<>>
    /\ nextPlaceId = 1
    /\ users = <<>>
    /\ nextUserId = 1
    /\ tokens = {}
    /\ assets = {}
    /\ deleted = {}
    /\ inflight = {}
    /\ ledger = NoLedger
    /\ req = NoRequest
    /\ resp = NoResponse

\* the response has been sent: the server is ready for the next request
endRequest ==
    /\ ~Idle
    /\ req' = NoRequest
    /\ resp' = NoResponse
    /\ UNCHANGED <<placeVars, userVars>>

Next ==
    \/ createPlace
    \/ seedTestData
    \/ getAllPlaces
    \/ getPlaceById
    \/ findNearbyPlaces
    \/ getDistanceBetweenPlaces
    \/ registerUser
    \/ loginUser
    \/ getUserProfile
    \/ updateUserProfile
    \/ deleteUser
    \/ searchUsers
    \/ getNearbyUsers
    \/ endRequest

Spec == Init /\ [][Next]_vars

\* the account that the i-th registration of a populated store made, after
\* it set its location: usr1, usr2, ... a meter apart, north of the center
\* 30.04, 31.23
BulkUser(i) ==
    [NewUser(<<"u", "s", "r">> \o Digits(i),
             <<"u">> \o Digits(i) \o <<"@", "x">>,
             bcryptHash(Secret), Undef)
       EXCEPT !.coordinates = Geo(30040000 + 10 * i, 31230000)]

\* a store after BulkUsers registrations, every account located, the first
\* MaxUsers of them logged in
InitBulk ==
    /\ places = <<>>
    /\ nextPlaceId = 1
    /\ users = [i \in 1..BulkUsers |-> BulkUser(i)]
    /\ nextUserId = BulkUsers + 1
    /\ tokens = UserIds
    /\ assets = {}
    /\ deleted = {}
    /\ inflight = {}
    /\ ledger = NoLedger
    /\ req = NoRequest
    /\ resp = NoResponse

\* the reads of the user directory, and accounts leaving it
NextLimit ==
    \/ searchUsers
    \/ getNearbyUsers
    \/ deleteUser
    \/ endRequest

SpecLimit == InitBulk /\ [][NextLimit]_vars

\* the user router alone
NextUsers ==
    \/ registerUser
    \/ loginUser
    \/ getCurrentUserProfile
    \/ getUserProfile
    \/ updateUserProfile
    \/ uploadUserAvatar
    \/ updateUserStats
    \/ getUserEngagement
    \/ deleteUser
    \/ endRequest

SpecUsers == Init /\ [][NextUsers]_vars

\* the user router with its two directory queries
NextViews ==
    \/ NextUsers
    \/ searchUsers
    \/ getNearbyUsers

SpecViews == Init /\ [][NextViews]_vars

---------------------------------------------------------------------------
(* Requests in flight.  A handler is an async function: between two of its
   awaited queries the queries of other requests may run.  The steps below
   are the queries of PUT /users/:id and DELETE /users/:id, one step each;
   a request in flight is [op, id, auth, body, n, pc] where n tells
   requests that are otherwise alike apart and pc names its next query. *)

\* PUT /users/:id and DELETE /users/:id requests under the token of :id
RaceRequests ==
    {[op |-> "updateUserProfile", id |-> id, auth |-> Bearer(id),
      body |-> [fullName |-> f, avatarUrl |-> Undef, latitude |-> c[1],
                longitude |-> c[2]]] :
        id \in UserIds,
        f \in {Undef, Str(<<"A", "n", "n">>)},
        c \in {<<Undef, Undef>>, <<Num(30100000), Num(31230000)>>}}
    \cup {[op |-> "deleteUser", id |-> id, auth |-> Bearer(id),
           body |-> Undef] : id \in UserIds}

\* updateFields of updateUserProfileService is not empty
HasFields(d) == d.fullName.k # "undef" \/ d.avatarUrl.k # "undef"

\* the first query of a handler, and the query after `pc`
FirstQuery(q) ==
    IF q.op = "deleteUser" THEN "getUserProfile"
    ELSE IF q.body.latitude.k # "undef" /\ q.body.longitude.k # "undef"
      THEN "executeRaw"
    ELSE IF HasFields(q.body) THEN "update"
    ELSE "getUserProfile"

\* the request r has been answered
Answer(r, response) ==
    /\ inflight' = inflight \ {r}
    /\ req' = [op |-> r.op, id |-> r.id, auth |-> r.auth, body |-> r.body,
               absent |-> r.absent]
    /\ resp' = response

\* the request r goes on to its next query
Continue(r, next) ==
    /\ inflight' = (inflight \ {r}) \cup {next}
    /\ UNCHANGED <<req, resp>>

\* authenticateToken and authorizeOwner of a new request: one lookup of the
\* user of the token, then the handler starts
authenticate ==
    /\ Cardinality(inflight) < MaxInflight
    /\ \E q \in RaceRequests :
          LET n == SetMin((1..MaxInflight) \ {r.n : r \in inflight})
              r == [op |-> q.op, id |-> q.id, auth |-> q.auth,
                    body |-> q.body, n |-> n, pc |-> FirstQuery(q),
                    absent |-> FALSE, avatarUrl |-> Null]
          IN  IF OwnerGate(q.auth, q.id) # 0
                THEN /\ req' = [op |-> q.op, id |-> q.id, auth |-> q.auth,
                                body |-> q.body, absent |-> FALSE]
                     /\ resp' = Error(OwnerGate(q.auth, q.id))
                     /\ UNCHANGED inflight
                ELSE /\ inflight' = inflight \cup {r}
                     /\ UNCHANGED <<req, resp>>
    /\ UNCHANGED <<placeVars, ledger, users, nextUserId,
                   tokens, assets, deleted>>

\* updateUserProfileService: UPDATE "User" SET coordinates = ... WHERE id;
\* no row is changed when there is no such user (absent)
executeRawCoordinates ==
    /\ \E r \in inflight :
          /\ r.op = "updateUserProfile"
          /\ r.pc = "executeRaw"
          /\ \E g \in ST_GeographyFromText(r.body.longitude, r.body.latitude) :
                IF ~g.ok
                  THEN /\ Answer(r, Error(500))
                       /\ UNCHANGED users
                  ELSE /\ users' = IF r.id \in DOMAIN users
                                     THEN [users EXCEPT
                                             ![r.id].coordinates = g.geo]
                                     ELSE users
                       /\ Continue(r, [r EXCEPT
                              !.absent = r.id \notin DOMAIN users,
                              !.pc = IF HasFields(r.body) THEN "update"
                                     ELSE "getUserProfile"])
    /\ UNCHANGED <<placeVars, ledger, nextUserId, tokens, assets, deleted>>

\* updateUserProfileService: prisma.user.update, which throws when there is
\* no such user or a field is no text
prismaUserUpdate ==
    /\ \E r \in inflight :
          /\ r.op = "updateUserProfile"
          /\ r.pc = "update"
          /\ IF r.id \notin DOMAIN users \/ ~ValidText(r.body.fullName)
               THEN /\ Answer(r, Error(500))
                    /\ UNCHANGED users
               ELSE /\ users' =
                         [users EXCEPT
                            ![r.id].fullName =
                                IF r.body.fullName.k = "undef" THEN @
                                ELSE r.body.fullName,
                            ![r.id].avatarUrl =
                                IF r.body.avatarUrl.k = "undef" THEN @
                                ELSE r.body.avatarUrl]
                    /\ Continue(r, [r EXCEPT !.pc = "getUserProfile"])
    /\ UNCHANGED <<placeVars, ledger, nextUserId, tokens, assets, deleted>>

\* updateUserProfileService returns getUserProfileService(userId), and
\* updateUserProfile reads updatedUser.avatarUrl: a TypeError when the
\* profile is null
returnUpdatedProfile ==
    /\ \E r \in inflight :
          /\ r.op = "updateUserProfile"
          /\ r.pc = "getUserProfile"
          /\ LET p == getUserProfileService(users, r.id)
             IN  Answer(r, IF p.found
                             THEN [status |-> 200, error |-> FALSE,
                                   user |-> [p.row EXCEPT !.avatarUrl =
                                               getOptimizedAvatarUrl(@, 200)]]
                             ELSE Error(500))
    /\ UNCHANGED <<placeVars, ledger, users, nextUserId,
                   tokens, assets, deleted>>

\* deleteUser: getUserProfileService(userId), to look for an avatar
fetchUserProfile ==
    /\ \E r \in inflight :
          /\ r.op = "deleteUser"
          /\ r.pc = "getUserProfile"
          /\ LET user == getUserProfileService(users, r.id)
             IN  IF user.found /\ user.row.avatarUrl.k = "url"
                   THEN Continue(r, [r EXCEPT !.pc = "deleteAvatar",
                                              !.avatarUrl =
                                                  user.row.avatarUrl])
                   ELSE Continue(r, [r EXCEPT !.pc = "delete"])
    /\ UNCHANGED <<placeVars, ledger, users, nextUserId,
                   tokens, assets, deleted>>

\* deleteUser: deleteAvatar(user.avatarUrl)
deleteUserAvatar ==
    /\ \E r \in inflight :
          /\ r.op = "deleteUser"
          /\ r.pc = "deleteAvatar"
          /\ assets' \in deleteAvatar(r.avatarUrl)
          /\ Continue(r, [r EXCEPT !.pc = "delete"])
    /\ UNCHANGED <<placeVars, ledger, users, nextUserId, tokens, deleted>>

\* deleteUser: deleteUserService(userId), and the answer
prismaUserDelete ==
    /\ \E r \in inflight :
          /\ r.op = "deleteUser"
          /\ r.pc = "delete"
          /\ LET d == deleteUserService(r.id)
                 gone == [r EXCEPT !.absent = r.id \notin DOMAIN users]
             IN  /\ users' = d.users
                 /\ IF d.ok
                      THEN /\ Answer(gone, [status |-> 200, error |-> FALSE])
                           /\ deleted' = deleted \cup {r.id}
                      ELSE /\ Answer(gone, Error(500))
                           /\ UNCHANGED deleted
    /\ UNCHANGED <<placeVars, ledger, nextUserId, tokens, assets>>

\* PUT /users/:id/stats requests on likeCount, up or down, under the token
\* of the first user or none
RaceStatsRequests ==
    {[op |-> "updateUserStats", id |-> id, auth |-> a,
      body |-> [statType |-> Str("likeCount"), increment |-> Num(d)]] :
        id \in UserIds, a \in {NoToken, Bearer(1)}, d \in {5, -7}}

\* authenticateToken of a stats request, and updateUserStats up to the
\* UPDATE of updateUserStatsService.  `seen` is the counter as the row of
\* :id has it at this time.
authenticateStats ==
    /\ Cardinality(inflight) < MaxInflight
    /\ \E q \in RaceStatsRequests :
          IF StatsGate(q.auth, q.id) # 0
            THEN /\ req' = [op |-> q.op, id |-> q.id, auth |-> q.auth,
                            body |-> q.body]
                 /\ resp' = Error(StatsGate(q.auth, q.id))
                 /\ UNCHANGED inflight
            ELSE /\ inflight' = inflight \cup
                      {[op |-> q.op, id |-> q.id, auth |-> q.auth,
                        body |-> q.body,
                        n |-> SetMin((1..MaxInflight)
                                        \ {r.n : r \in inflight}),
                        pc |-> "executeRaw",
                        seen |-> IF q.id \in DOMAIN users
                                   THEN users[q.id][q.body.statType.s]
                                   ELSE 0]}
                 /\ UNCHANGED <<req, resp>>
    /\ UNCHANGED <<placeVars, ledger, users, nextUserId,
                   tokens, assets, deleted>>

\* mutant: the counter is computed by the caller from the value it read
CounterRead(r) == r.seen

\* "likeCount" in SET "likeCount" = GREATEST(0, "likeCount" + increment):
\* the value of the row at the time of the UPDATE
Counter(r) == users[r.id][r.body.statType.s]

\* updateUserStatsService: the UPDATE of the counter, one statement
executeRawStats ==
    /\ \E r \in inflight :
          /\ r.op = "updateUserStats"
          /\ r.pc = "executeRaw"
          /\ IF r.id \in DOMAIN users
               THEN LET new == Counter(r) + r.body.increment.v
                    IN  /\ users' = [users EXCEPT
                                       ![r.id][r.body.statType.s] =
                                           Max(0, new)]
                        /\ ledger' = [ledger EXCEPT ![r.id] =
                                        IF @.clamped \/ new < 0
                                          THEN [sum |-> 0, clamped |-> TRUE]
                                          ELSE [sum |-> @.sum
                                                   + r.body.increment.v,
                                                clamped |-> FALSE]]
                        /\ StatsTotal(users') <= MaxRaceStat
               ELSE UNCHANGED <<users, ledger>>
          /\ Continue(r, [r EXCEPT !.pc = "getUserProfile"])
    /\ UNCHANGED <<placeVars, nextUserId, tokens, assets, deleted>>

\* updateUserStatsService returns getUserProfileService(userId), and
\* updateUserStats answers with it
returnStatsProfile ==
    /\ \E r \in inflight :
          /\ r.op = "updateUserStats"
          /\ r.pc = "getUserProfile"
          /\ inflight' = inflight \ {r}
          /\ req' = [op |-> r.op, id |-> r.id, auth |-> r.auth,
                     body |-> r.body]
          /\ resp' = [status |-> 200, error |-> FALSE,
                      user |-> getUserProfileService(users, r.id).row]
    /\ UNCHANGED <<placeVars, ledger, users, nextUserId,
                   tokens, assets, deleted>>

\* registerUser up to its first query: the validation of the body, which
\* answers 400, or the call of createUserService
receiveRegistration ==
    /\ Cardinality(inflight) < MaxInflight
    /\ \E body \in RegisterBodies :
          IF Falsy(body.username) \/ Falsy(body.email)
                \/ Falsy(body.password) \/ Len(body.password.s) < 6
            THEN /\ req' = [op |-> "registerUser", body |-> body,
                            lost |-> FALSE]
                 /\ resp' = Error(400)
                 /\ UNCHANGED inflight
            ELSE /\ inflight' = inflight \cup
                      {[op |-> "registerUser", body |-> body,
                        n |-> SetMin((1..MaxInflight)
                                        \ {r.n : r \in inflight}),
                        pc |-> "findFirst", lost |-> FALSE]}
                 /\ UNCHANGED <<req, resp>>
    /\ UNCHANGED <<placeVars, ledger, users, nextUserId,
                   tokens, assets, deleted>>

\* the users that have the email or the username of the body
Existing(body) ==
    {i \in DOMAIN users : \/ users[i].email = body.email.s
                          \/ users[i].username = body.username.s}

\* createUserService: prisma.user.findFirst by email or username, and the
\* 'already exists' error, which registerUser answers with 409
prismaUserFindFirst ==
    /\ \E r \in inflight :
          /\ r.op = "registerUser"
          /\ r.pc = "findFirst"
          /\ IF Existing(r.body) # {}
               THEN /\ inflight' = inflight \ {r}
                    /\ req' = [op |-> r.op, body |-> r.body, lost |-> FALSE]
                    /\ resp' = Error(409)
               ELSE Continue(r, [r EXCEPT !.pc = "create"])
    /\ UNCHANGED <<placeVars, ledger, users, nextUserId,
                   tokens, assets, deleted>>

\* createUserService: prisma.user.create after bcrypt.hash, and the answer.
\* When a user with this email or username has been stored since findFirst
\* (lost), the row is stored beside it, or the store refuses it if the
\* columns are unique: an error without 'already exists', answered 500.
\* A refused INSERT has taken its id from the sequence.
prismaUserCreate ==
    /\ nextUserId <= MaxUsers
    /\ \E r \in inflight :
          /\ r.op = "registerUser"
          /\ r.pc = "create"
          /\ LET lost == Existing(r.body) # {}
                 t == Insert(users, nextUserId,
                             NewUser(r.body.username.s, r.body.email.s,
                                     bcryptHash(r.body.password.s),
                                     r.body.fullName))
             IN  /\ inflight' = inflight \ {r}
                 /\ req' = [op |-> r.op, body |-> r.body, lost |-> lost]
                 /\ nextUserId' = nextUserId + 1
                 /\ \/ /\ users' = t
                       /\ resp' = [status |-> 201, error |-> FALSE,
                                   user |-> PrivateRowOf(t, nextUserId)]
                    \/ /\ lost
                       /\ users' = users
                       /\ resp' = Error(500)
    /\ UNCHANGED <<placeVars, ledger, tokens, assets, deleted>>

\* concurrent POST /users/register requests on an empty store
NextRegister ==
    \/ receiveRegistration
    \/ prismaUserFindFirst
    \/ prismaUserCreate

SpecRegister == Init /\ [][NextRegister]_vars

\* a store after two registrations and logins, the first user located and
\* with an avatar
InitRace ==
    /\ places = <<>>
    /\ nextPlaceId = 1
    /\ users = <<[NewUser(Ann, AnnMail, bcryptHash(Secret), Undef)
                    EXCEPT !.coordinates = Geo(30040000, 31230000),
                           !.avatarUrl = Url(1)],
                 NewUser(Bob, BobMail, bcryptHash(Secret), Undef)>>
    /\ nextUserId = 3
    /\ tokens = {1, 2}
    /\ assets = {Url(1)}
    /\ deleted = {}
    /\ inflight = {}
    /\ ledger = NoLedger
    /\ req = NoRequest
    /\ resp = NoResponse

NextRace ==
    \/ authenticate
    \/ executeRawCoordinates
    \/ prismaUserUpdate
    \/ returnUpdatedProfile
    \/ fetchUserProfile
    \/ deleteUserAvatar
    \/ prismaUserDelete

SpecRace == InitRace /\ [][NextRace]_vars

\* concurrent PUT /users/:id/stats requests on the same store
NextStats ==
    \/ authenticateStats
    \/ executeRawStats
    \/ returnStatsProfile

SpecStats == InitRace /\ [][NextStats]_vars

---------------------------------------------------------------------------
(* Properties *)

\* the query of the GET /users/nearby request being answered
UserQuery ==
    [lat |-> req.lat, lng |-> req.lng, radius |-> req.radius,
     limit |-> req.limit]

\* the query of the GET /places/nearby/search request being answered
PlaceQuery == [lat |-> req.lat, lng |-> req.lng, radius |-> req.radius]

\* the center of the nearby query being answered
Center == Geo(req.lat.v, req.lng.v)

NumericCenter == req.lat.k = "num" /\ req.lng.k = "num"

\* the distance of the i-th user of the answer from the center, in the store
UserDistance(i) == ST_Distance(users[resp.users[i].id].coordinates, Center)

\* the distance of the i-th place of the answer from the center, in the store
PlaceDistance(i) == ST_Distance(places[resp.rows[i].id].location, Center)

ReturnedUsers == {resp.users[i].id : i \in DOMAIN resp.users}
ReturnedPlaces == {resp.rows[i].id : i \in DOMAIN resp.rows}

\* C1: a 200 answer of GET /users/nearby lists stored users only, each once,
\* each within the given radius of the center, in ascending order of
\* distance (the stored distance and the rounded one of the answer), and no
\* more of them than the given limit.
NearbyUsersWithinSortedLimited ==
    (req.op = "getNearbyUsers" /\ resp.status = 200) =>
        /\ \A i \in DOMAIN resp.users :
              /\ resp.users[i].id \in DOMAIN users
              /\ req.radius.k = "num" => UserDistance(i) <= req.radius.v * 10
              /\ resp.users[i].distance = MathRound(UserDistance(i))
        /\ \A i, j \in DOMAIN resp.users :
              i < j => /\ UserDistance(i) <= UserDistance(j)
                       /\ resp.users[i].distance <= resp.users[j].distance
                       /\ resp.users[i].id # resp.users[j].id
        /\ req.limit.k = "num" => Len(resp.users) <= req.limit.v
        /\ resp.count = Len(resp.users)

\* C1 witness: two users are returned, the nearer one first
NearbyUsersTwoSorted ==
    /\ req.op = "getNearbyUsers"
    /\ resp.status = 200
    /\ Len(resp.users) = 2
    /\ resp.users[1].distance < resp.users[2].distance

\* C2 (as claimed): GET /places/nearby/search with a numeric center and a
\* numeric or omitted radius answers 200 with the places in ascending order
\* of their distance from the center.
NearbyPlacesAscending ==
    (/\ req.op = "findNearbyPlaces"
     /\ NumericCenter
     /\ req.radius.k \in {"num", "undef"}) =>
        /\ resp.status = 200
        /\ \A i, j \in DOMAIN resp.rows :
              i < j => PlaceDistance(i) <= PlaceDistance(j)

\* the maxima the route documentation gives for the limit of
\* GET /users/nearby and of GET /users/search
NearbyMaximum == 100
SearchMaximum == 50

\* C3 (as claimed): whatever limit is passed, a 200 answer of
\* GET /users/nearby holds at most 100 users and a 200 answer of
\* GET /users/search holds at most 50 users.
DocumentedMaximumEnforced ==
    /\ (req.op = "getNearbyUsers" /\ resp.status = 200) =>
          Len(resp.users) <= NearbyMaximum
    /\ (req.op = "searchUsers" /\ resp.status = 200) =>
          Len(resp.users) <= SearchMaximum

\* C4: an omitted radius is the radius 5000 for GET /places/nearby/search
\* and the radius 10000 for GET /users/nearby, and an omitted limit is the
\* limit 50: the answer given is one the explicit query can get, and the two
\* queries have the same possible answers.
OmittedIsDefault ==
    /\ (req.op = "findNearbyPlaces" /\ req.radius.k = "undef") =>
          LET explicit == [PlaceQuery EXCEPT !.radius = Num(5000)]
          IN  /\ resp \in findNearbyPlacesResponses(explicit)
              /\ findNearbyPlacesResponses(PlaceQuery)
                    = findNearbyPlacesResponses(explicit)
    /\ (req.op = "getNearbyUsers" /\ req.radius.k = "undef") =>
          LET explicit == [UserQuery EXCEPT !.radius = Num(10000)]
          IN  /\ resp \in getNearbyUsersResponses(explicit)
              /\ getNearbyUsersResponses(UserQuery)
                    = getNearbyUsersResponses(explicit)
    /\ (req.op = "getNearbyUsers" /\ req.limit.k = "undef") =>
          LET explicit == [UserQuery EXCEPT !.limit = Num(50)]
          IN  /\ resp \in getNearbyUsersResponses(explicit)
              /\ getNearbyUsersResponses(UserQuery)
                    = getNearbyUsersResponses(explicit)

\* C4 witness: a query without radius and limit returns a user that is more
\* than 5000 m from the center
OmittedRadiusReachesBeyond5000 ==
    /\ req.op = "getNearbyUsers"
    /\ req.radius.k = "undef"
    /\ req.limit.k = "undef"
    /\ resp.status = 200
    /\ \E i \in DOMAIN resp.users : resp.users[i].distance > 5000

\* C5 (as claimed): a request of one of the three query endpoints in which
\* a required numeric parameter is missing or not a number, or the radius
\* or limit given is not a number, is answered 400.  (The claim adds that
\* no query is issued; the status alone is stated here.)
BadQueryParameterIs400 ==
    /\ (/\ req.op = "findNearbyPlaces"
        /\ \/ ~NumericCenter
           \/ req.radius.k = "text") => resp.status = 400
    /\ (/\ req.op = "getDistanceBetweenPlaces"
        /\ \E x \in {req.fromLat, req.fromLng, req.toLat, req.toLng} :
              x.k # "num") => resp.status = 400
    /\ (/\ req.op = "getNearbyUsers"
        /\ \/ ~NumericCenter
           \/ req.radius.k = "text"
           \/ req.limit.k = "text") => resp.status = 400

\* C6 (as claimed): POST /places with a latitude outside [-90, 90] or a
\* longitude outside [-180, 180] is answered 400 and leaves the stored
\* places unchanged.
OutOfRangePlaceRejected ==
    [][(/\ Idle
        /\ req'.op = "createPlace"
        /\ req'.body.latitude.k = "num"
        /\ req'.body.longitude.k = "num"
        /\ ~InRange(req'.body.latitude.v, req'.body.longitude.v))
       => (resp'.status = 400 /\ places' = places)]_vars

\* C7 (as claimed): POST /places with a body that lacks latitude or
\* longitude is answered 400 and stores no place; 201 is answered only when
\* both are present.
MissingCoordinateIs400 ==
    [][(Idle /\ req'.op = "createPlace") =>
         LET missing == \/ req'.body.latitude.k = "undef"
                        \/ req'.body.longitude.k = "undef"
         IN  /\ missing => (resp'.status = 400 /\ places' = places)
             /\ resp'.status = 201 => ~missing]_vars

\* the nearby query being answered has a numeric center and the radius r
RadiusQuery(op) ==
    /\ req.op = op
    /\ NumericCenter
    /\ req.radius.k = "num"

\* C8 (as claimed): a radius search with a zero or negative radius answers
\* 200 with an empty sequence, whatever is stored.
NonPositiveRadiusIsEmpty ==
    /\ (RadiusQuery("findNearbyPlaces") /\ req.radius.v <= 0) =>
          (resp.status = 200 /\ resp.rows = <<>>)
    /\ (RadiusQuery("getNearbyUsers") /\ req.radius.v <= 0) =>
          (resp.status = 200 /\ resp.users = <<>>)

\* the stored places and users located exactly at the center
PlacesAtCenter == {id \in DOMAIN places : places[id].location = Center}
UsersAtCenter == {id \in DOMAIN users : users[id].coordinates = Center}

\* C8 (amended): a radius search with a negative radius answers 200 with an
\* empty sequence; with the radius zero it answers 200 with the entities
\* located exactly at the center and no other: all of them for places, and
\* for users as many of them as the limit (50 when omitted) allows.
NonPositiveRadiusOnlyAtCenter ==
    /\ (RadiusQuery("findNearbyPlaces") /\ req.radius.v <= 0) =>
          /\ resp.status = 200
          /\ ReturnedPlaces =
                IF req.radius.v = 0 THEN PlacesAtCenter ELSE {}
    /\ (RadiusQuery("getNearbyUsers") /\ req.radius.v <= 0) =>
          /\ resp.status = 200
          /\ ReturnedUsers \subseteq
                IF req.radius.v = 0 THEN UsersAtCenter ELSE {}
          /\ req.radius.v = 0 =>
                Cardinality(ReturnedUsers) =
                   Min(IF req.limit.k = "num" THEN req.limit.v ELSE 50,
                       Cardinality(UsersAtCenter))

\* C8 witness: a search with the radius zero returns the user at its center
ZeroRadiusReturnsUserAtCenter ==
    /\ RadiusQuery("getNearbyUsers")
    /\ req.radius.v = 0
    /\ resp.status = 200
    /\ resp.users # <<>>

\* C9: no user whose coordinates are NULL is in a 200 answer of
\* GET /users/nearby, and every user returned carries a point.
NoCoordinateNeverNearby ==
    (req.op = "getNearbyUsers" /\ resp.status = 200) =>
        /\ \A id \in DOMAIN users :
              users[id].coordinates.isNull => id \notin ReturnedUsers
        /\ \A i \in DOMAIN resp.users :
              resp.users[i].coordinates.wkt = "POINT"

\* C9 witness: a search returns a user while another stored user has no
\* coordinates
NearbySkipsUserWithoutCoordinate ==
    /\ req.op = "getNearbyUsers"
    /\ resp.status = 200
    /\ resp.users # <<>>
    /\ \E id \in DOMAIN users : users[id].coordinates.isNull

\* C10: once DELETE /users/:id has been answered 200 the user is not stored
\* any more: GET /users/:id answers 404 and no answer of GET /users/nearby
\* lists the user.
DeletedUserIsGone ==
    /\ deleted \cap DOMAIN users = {}
    /\ (/\ req.op = "getUserProfile"
        /\ req.id.k = "num"
        /\ req.id.v \in deleted) => resp.status = 404
    /\ (req.op = "getNearbyUsers" /\ resp.status = 200) =>
          ReturnedUsers \cap deleted = {}

\* C10 witness: the profile of a deleted user is asked for and answered 404
DeletedProfileIs404 ==
    /\ req.op = "getUserProfile"
    /\ req.id.k = "num"
    /\ req.id.v \in deleted
    /\ resp.status = 404

\* a request has just been answered in this step
Answered == Idle /\ req' # NoRequest

\* the request answered in this step bears a token of a stored user other
\* than :id
ForeignToken ==
    /\ req'.auth.k = "jwt"
    /\ req'.auth.userId \in DOMAIN users
    /\ req'.auth.userId # req'.id

\* C11: PUT /users/:id, POST /users/:id/avatar and DELETE /users/:id under
\* the token of a stored user other than :id are answered 403, and neither
\* the table of users nor the assets of the image host change.
ForeignRequestIs403 ==
    [][(/\ Answered
        /\ req'.op \in {"updateUserProfile", "uploadUserAvatar", "deleteUser"}
        /\ ForeignToken)
         => /\ resp'.status = 403
            /\ users' = users
            /\ assets' = assets]_vars

\* C11 witness: a located user is the target of a PUT under the token of
\* another stored user, and the answer is 403
ForeignUpdateRefused ==
    /\ req.op = "updateUserProfile"
    /\ req.auth.k = "jwt"
    /\ req.auth.userId \in DOMAIN users
    /\ req.auth.userId # req.id
    /\ req.id \in DOMAIN users
    /\ ~users[req.id].coordinates.isNull
    /\ resp.status = 403

\* the endpoints behind authenticateToken
Protected ==
    {"getCurrentUserProfile", "updateUserProfile", "uploadUserAvatar",
     "updateUserStats", "deleteUser"}

\* C12: a request to GET /users/me, PUT /users/:id, POST /users/:id/avatar,
\* PUT /users/:id/stats or DELETE /users/:id without a token is answered 401,
\* and the users, the assets and the issued tokens are what they were.
NoTokenIs401 ==
    [][(/\ Answered
        /\ req'.op \in Protected
        /\ req'.auth.k = "none")
         => /\ resp'.status = 401
            /\ users' = users
            /\ assets' = assets
            /\ tokens' = tokens]_vars

\* C12 witness: a stats update of a stored user without a token is answered
\* 401
StatsWithoutTokenRefused ==
    /\ req.op = "updateUserStats"
    /\ req.auth.k = "none"
    /\ req.id \in DOMAIN users
    /\ resp.status = 401

\* the POST /users/register request answered in this step names a username
\* or an email that a stored user has
DuplicateRegistration ==
    /\ Answered
    /\ req'.op = "registerUser"
    /\ req'.body.username.k = "str"
    /\ req'.body.email.k = "str"
    /\ \E i \in DOMAIN users :
          \/ users[i].username = req'.body.username.s
          \/ users[i].email = req'.body.email.s

Named ==
    {i \in DOMAIN users :
        \/ users[i].email = req'.body.emailOrUsername.s
        \/ users[i].username = req'.body.emailOrUsername.s}

\* C14 (as claimed): POST /users/login with both fields is answered 200 with
\* a token when a stored user has the emailOrUsername as email or username
\* and the password as password, and is answered 401 without a token
\* otherwise.
LoginExactlyOnMatch ==
    [][(/\ Answered
        /\ req'.op = "loginUser"
        /\ req'.body.emailOrUsername.k = "str"
        /\ req'.body.password.k = "str")
         => IF \E i \in Named :
                  bcryptCompare(req'.body.password.s, users[i].password)
              THEN /\ resp'.status = 200
                   /\ resp'.token.k = "jwt"
              ELSE /\ resp'.status = 401
                   /\ tokens' = tokens]_vars

\* the user rows of the response: the one under `user`, those under `users`
ResponseRows ==
    (IF "user" \in DOMAIN resp THEN {resp.user} ELSE {})
        \cup (IF "users" \in DOMAIN resp
                THEN {resp.users[i] : i \in DOMAIN resp.users}
                ELSE {})

\* C15: no response holds a password; a response holds an email only when it
\* answers a registration, a login or GET /users/me, and then it is the
\* email of the user registered, logged in or authenticated; the rows of
\* GET /users/:id, GET /users/search and GET /users/nearby hold none.
NoPasswordNoForeignEmail ==
    /\ "password" \notin DOMAIN resp
    /\ \A row \in ResponseRows :
          /\ "password" \notin DOMAIN row
          /\ "email" \in DOMAIN row =>
                /\ req.op \in {"registerUser", "loginUser",
                               "getCurrentUserProfile"}
                /\ row.id \in DOMAIN users
                /\ row.email = users[row.id].email
                /\ req.op = "registerUser" => row.email = req.body.email.s
                /\ req.op = "loginUser" =>
                      /\ req.body.emailOrUsername.s
                            \in {row.email, row.username}
                      /\ bcryptCompare(req.body.password.s,
                                       users[row.id].password)
                /\ req.op = "getCurrentUserProfile" =>
                      row.id = req.auth.userId

\* C15 witness: GET /users/nearby returns the row of a stored user
NearbyReturnsPublicRow ==
    /\ req.op = "getNearbyUsers"
    /\ resp.status = 200
    /\ Len(resp.users) > 0
    /\ resp.users[1].id \in DOMAIN users

\* the PUT /users/:id/stats request answered in this step passed
\* authenticateToken
StatsRequestHandled ==
    /\ Answered
    /\ req'.op = "updateUserStats"
    /\ authenticateToken(req'.auth).status = 0

\* C16: a PUT /users/:id/stats request that passes authenticateToken and
\* whose statType is not storyCount, likeCount or commentCount (or is
\* missing) is answered 400, and no row of the table of users changes.
InvalidStatTypeIs400 ==
    [][(/\ StatsRequestHandled
        /\ \/ req'.body.statType.k # "str"
           \/ req'.body.statType.s \notin validStats)
         => /\ resp'.status = 400
            /\ users' = users]_vars

\* C16 witness: a stats update with the statType 'invalidStat' of a user who
\* has a counter above zero is answered 400
InvalidStatRefused ==
    /\ req.op = "updateUserStats"
    /\ req.body.statType = Str("invalidStat")
    /\ resp.status = 400
    /\ req.id \in DOMAIN users
    /\ users[req.id].likeCount > 0

\* C17: every engagement counter of every stored user is at least 0, and a
\* stats update that passes authenticateToken, names a counter of a stored
\* user and carries a numeric increment d (1 when omitted) is answered 200
\* with that counter set to the larger of 0 and its old value plus d, every
\* other counter and every other user being left as they were.
CountersClampedAtZero ==
    /\ [](\A i \in DOMAIN users :
             /\ users[i].storyCount >= 0
             /\ users[i].likeCount >= 0
             /\ users[i].commentCount >= 0)
    /\ [][(/\ StatsRequestHandled
           /\ req'.body.statType.k = "str"
           /\ req'.body.statType.s \in validStats
           /\ statsIncrement(req'.body.increment).k = "num"
           /\ req'.id \in DOMAIN users)
            => LET name == req'.body.statType.s
                   d == statsIncrement(req'.body.increment).v
                   new == IF users[req'.id][name] + d >= 0
                            THEN users[req'.id][name] + d ELSE 0
               IN  /\ users' = [users EXCEPT ![req'.id][name] = new]
                   /\ resp'.status = 200
                   /\ resp'.user[name] = new]_vars

\* C17 witness: a decrement by 7 of a counter that is less than 7 has been
\* answered 200, the counter reads 0 and another counter of the same user
\* is above zero
DecrementClamped ==
    /\ req.op = "updateUserStats"
    /\ req.body = [statType |-> Str("storyCount"), increment |-> Num(-7)]
    /\ resp.status = 200
    /\ req.id \in DOMAIN users
    /\ resp.user.storyCount = 0
    /\ users[req.id].storyCount = 0
    /\ users[req.id].likeCount = 5

\* C18: a PUT /users/:id whose UPDATE of the coordinates found no row of
\* that id (the user was deleted after the request was authenticated) is
\* answered 404, never with success and never with another error.
AbsentCoordinateUpdateIsNotFound ==
    (req.op = "updateUserProfile" /\ req.absent) => resp.status = 404

\* C19: a DELETE /users/:id that finds the row already removed (by a
\* concurrent DELETE of the same id) completes without an error, as the
\* first one does.
RemovalOfAbsentIsNoError ==
    (req.op = "deleteUser" /\ req.absent) => resp.status = 200

\* the four coordinates of a route query are numbers in the range of the
\* geography type
ValidRoute ==
    /\ \A x \in {req.fromLat, req.fromLng, req.toLat, req.toLng} :
          x.k = "num"
    /\ InRange(req.fromLat.v, req.fromLng.v)
    /\ InRange(req.toLat.v, req.toLng.v)

LoneCoordinate ==
    \/ /\ req'.op = "getNearbyUsers"
       /\ (req'.lat.k = "undef") # (req'.lng.k = "undef")
    \/ /\ req'.op = "updateUserProfile"
       /\ OwnerGate(req'.auth, req'.id) = 0
       /\ (req'.body.latitude.k = "undef") # (req'.body.longitude.k = "undef")

\* C21: a nearby search, or a profile update by the owner, that carries
\* exactly one of latitude/longitude is answered 400 and leaves the stored
\* users unchanged.
LoneCoordinateIs400 ==
    [][(Answered /\ LoneCoordinate) =>
          (resp'.status = 400 /\ users' = users)]_vars

\* C22: a PUT /users/:id by the owner that carries a coordinate pair and
\* other profile fields and is answered with an error has changed nothing
\* of the stored users: the coordinates are not replaced without the
\* fields.
ProfileUpdateIsAtomic ==
    [][(/\ Answered
        /\ req'.op = "updateUserProfile"
        /\ OwnerGate(req'.auth, req'.id) = 0
        /\ req'.body.latitude.k # "undef"
        /\ req'.body.longitude.k # "undef"
        /\ HasFields(req'.body)
        /\ resp'.error) => users' = users]_vars

\* C23: in the answers of the two radius searches, entities at exactly the
\* same distance from the center come in ascending order of id, and under a
\* limit a user is returned only together with the users of the same
\* distance and lower id.
EqualDistanceInIdOrder ==
    /\ (req.op = "getNearbyUsers" /\ resp.status = 200) =>
          /\ \A i, j \in DOMAIN resp.users :
                (i < j /\ UserDistance(i) = UserDistance(j))
                    => resp.users[i].id < resp.users[j].id
          /\ \A i \in DOMAIN resp.users :
                \A id \in UsersWithin(Center, searchRadius(req.radius).v) :
                    (/\ id < resp.users[i].id
                     /\ ST_Distance(users[id].coordinates, Center)
                            = UserDistance(i)) => id \in ReturnedUsers
    /\ (req.op = "findNearbyPlaces" /\ resp.status = 200) =>
          \A i, j \in DOMAIN resp.rows :
                (i < j /\ PlaceDistance(i) = PlaceDistance(j))
                    => resp.rows[i].id < resp.rows[j].id

\* C24: no step of the API changes or removes a stored place; the places a
\* step adds get ids that no place has had before.
PlacesNeverChange ==
    [][/\ \A id \in DOMAIN places :
             id \in DOMAIN places' /\ places'[id] = places[id]
       /\ \A id \in DOMAIN places' \ DOMAIN places : id >= nextPlaceId]_vars

\* C24 witness: the test places were seeded into a store that held a place
\* already, and a user has registered since
SeededBesideStoredPlace ==
    /\ req.op = "seedTestData"
    /\ resp.status = 201
    /\ Cardinality(DOMAIN places) = 4
    /\ places[1].name = "Cafe"
    /\ DOMAIN users # {}

\* C25: GET /users/:id, GET /users/:id/engagement and an authenticated
\* PUT /users/:id/stats with a valid statType, addressed to an id that no
\* stored user has, are answered 404 with an error body.
MissingUserIs404 ==
    /\ (/\ req.op \in {"getUserProfile", "getUserEngagement"}
        /\ req.id.k = "num"
        /\ req.id.v \notin DOMAIN users)
           => (resp.status = 404 /\ resp.error)
    /\ (/\ req.op = "updateUserStats"
        /\ authenticateToken(req.auth).status = 0
        /\ req.body.statType.k = "str"
        /\ req.body.statType.s \in validStats
        /\ req.id \notin DOMAIN users)
           => (resp.status = 404 /\ resp.error)

\* C26: a request to an endpoint behind authenticateToken that bears the
\* token of a deleted user is answered 401 and changes neither the users,
\* the assets, the issued tokens nor the record of deletions.
DeletedTokenIs401 ==
    [][(/\ Answered
        /\ req'.op \in Protected
        /\ req'.auth.k = "jwt"
        /\ req'.auth.userId \in deleted)
         => /\ resp'.status = 401
            /\ users' = users
            /\ assets' = assets
            /\ tokens' = tokens
            /\ deleted' = deleted]_vars

\* C26 witness: a stats update of a stored user under the token of a deleted
\* user is answered 401
StatsWithDeletedTokenRefused ==
    /\ req.op = "updateUserStats"
    /\ req.auth.k = "jwt"
    /\ req.auth.userId \in deleted
    /\ req.auth.userId \in tokens
    /\ req.id \in DOMAIN users
    /\ resp.status = 401

\* C27: a PUT /users/:id/stats under the token of a stored user other than
\* :id, naming a counter of the stored user :id with a numeric increment d,
\* is answered 200 and applied to that counter: it reads the larger of 0 and
\* its old value plus d, which is more than before when d is positive.
StatsOfAnotherUserApplied ==
    [][(/\ Answered
        /\ req'.op = "updateUserStats"
        /\ ForeignToken
        /\ req'.id \in DOMAIN users
        /\ req'.body.statType.k = "str"
        /\ req'.body.statType.s \in validStats
        /\ statsIncrement(req'.body.increment).k = "num")
         => LET name == req'.body.statType.s
                d == statsIncrement(req'.body.increment).v
            IN  /\ resp'.status = 200
                /\ users'[req'.id][name] = Max(0, users[req'.id][name] + d)
                /\ d > 0 => users'[req'.id][name] > users[req'.id][name]]_vars

\* C27 witness: the likeCount of a fresh user was raised to 5 under the
\* token of another stored user
StatsRaisedByAnotherUser ==
    /\ req.op = "updateUserStats"
    /\ req.auth.k = "jwt"
    /\ req.auth.userId \in DOMAIN users
    /\ req.id \in DOMAIN users
    /\ req.auth.userId # req.id
    /\ req.body = [statType |-> Str("likeCount"), increment |-> Num(5)]
    /\ resp.status = 200
    /\ users[req.id].likeCount = 5

\* C28: a POST /users/:id/avatar by the owner that is not answered 200 (no
\* file, a refused file, a failed upload) leaves the assets of the host and
\* the stored users as they were; one answered 200 has stored a new asset,
\* made its URL the avatarUrl of the user, and removed from the host at most
\* the asset of the old avatarUrl.
OldAvatarDeletedOnlyAfterUpload ==
    [][(/\ Answered
        /\ req'.op = "uploadUserAvatar"
        /\ OwnerGate(req'.auth, req'.id) = 0)
         => IF resp'.status = 200
              THEN /\ req'.file = "image"
                   /\ users'[req'.id].avatarUrl \in assets' \ assets
                   /\ assets' \ assets = {users'[req'.id].avatarUrl}
                   /\ assets \ assets' \subseteq {users[req'.id].avatarUrl}
                   /\ users' = [users EXCEPT ![req'.id].avatarUrl =
                                                users'[req'.id].avatarUrl]
              ELSE /\ assets' = assets
                   /\ users' = users]_vars

\* C28 witness: the upload of an image for a user who has an avatar failed,
\* and the old asset is still on the host and still the user's avatarUrl
FailedUploadKeepsOldAvatar ==
    /\ req.op = "uploadUserAvatar"
    /\ req.file = "image"
    /\ resp.status = 500
    /\ req.id \in DOMAIN users
    /\ users[req.id].avatarUrl.k = "url"
    /\ users[req.id].avatarUrl \in assets

\* C29: no two stored users share a username or an email, and a
\* registration that finds, when it inserts its row, that a user with its
\* username or email has been stored since it looked, is answered 409.
ConcurrentRegistrationsStayUnique ==
    /\ \A i, j \in DOMAIN users :
          i # j => /\ users[i].username # users[j].username
                   /\ users[i].email # users[j].email
    /\ (req.op = "registerUser" /\ req.lost) => resp.status = 409

\* C30: as long as no stats update in flight was clamped, the likeCount of
\* every stored user is its initial value, 0, plus the sum of the increments
\* of the updates applied to it, however the requests interleave.
NoStatsUpdateLost ==
    \A id \in DOMAIN users :
        ~ledger[id].clamped => users[id].likeCount = ledger[id].sum

\* C30 witness: two stats updates of one user were in flight together past
\* their UPDATE, and the counter has both increments
TwoConcurrentUpdatesCounted ==
    /\ \E r, s \in inflight :
          /\ r # s
          /\ r.op = "updateUserStats" /\ s.op = "updateUserStats"
          /\ r.id = s.id
          /\ r.pc = "getUserProfile" /\ s.pc = "getUserProfile"
          /\ r.seen = 0 /\ s.seen = 0
          /\ r.id \in DOMAIN users
          /\ users[r.id].likeCount = 10
    /\ \A id \in DOMAIN ledger : ~ledger[id].clamped

===========================================================================
